---- MODULE Spec2Model ----
(***************************************************************************)
(* A model of the crate `cause` (src/src/lib.rs): the generic error        *)
(* wrapper Cause<T>, its consuming setters msg/src, its accessors, its     *)
(* Display/Error/Deref implementations and the cause! macro.               *)
(*                                                                         *)
(* Text is modelled by TLA+ strings (\o is concatenation, SubSeq a slice). *)
(* An Option<X> is the empty sequence (None) or a one-element sequence     *)
(* (Some(x)).  A discriminant T is the enum of the crate documentation;    *)
(* its values are the variants' discriminant numbers and the derived Debug *)
(* implementation turns them into the variant's name.                      *)
(***************************************************************************)
EXTENDS Integers, Sequences, FiniteSets, TLC

VARIABLES
    debug_assertions,   \* cfg!(debug_assertions): the build mode, fixed per run
    this,               \* Option<Cause<T>>: the wrapper the builder chain is at
    calls,              \* history: the calls that produced `this`, oldest first
    inner               \* Option<error>: a finished error bound to a local,
                        \* not yet moved into a wrapper

vars == <<debug_assertions, this, calls, inner>>

---------------------------------------------------------------------------
(* Bounds of the model *)

\* longest builder chain: the constructor and MaxCalls - 1 setter calls
MaxCalls == 4
\* deepest chain of wrappers a finished error kept for nesting may have
MaxDepth == 2

---------------------------------------------------------------------------
(* Option *)

None == <<>>
Some(x) == <<x>>
is_some(o) == o # None
is_none(o) == o = None
unwrap(o) == o[1]

---------------------------------------------------------------------------
(* The discriminant type of the crate documentation and its derived Debug *)

InvalidArgumentsError == 0
InternalError == 1
NotFoundError == 2

ErrorType == {InvalidArgumentsError, InternalError, NotFoundError}

\* #[derive(Debug)] on a field-less enum writes the variant's name
Debug(d) ==
    CASE d = InvalidArgumentsError -> "InvalidArgumentsError"
      [] d = InternalError -> "InternalError"
      [] d = NotFoundError -> "NotFoundError"

\* the match of the documentation: the branch a discriminant selects
http_status_code(d) ==
    CASE d = InternalError -> 500
      [] d = InvalidArgumentsError -> 400
      [] d = NotFoundError -> 404

---------------------------------------------------------------------------
(* Inputs *)

\* texts passed to msg(); the empty text is a message too
Messages == {"oops!", ""}

\* a foreign error: std::io::Error::new(ErrorKind::Other, text)
IoErr(text) == [type |-> "IoError", text |-> text]
IoErrors == {IoErr("oh no!")}

\* call sites of the macro: file!() and line!() of the invocation
CallSites ==
    { [file |-> "tests/macro_test.rs", line |-> 12],
      [file |-> "src/main.rs", line |-> 105] }

---------------------------------------------------------------------------
(* impl<T> Cause<T> *)

new(cause) ==
    [type |-> "Cause", cause |-> cause, msg |-> None, src |-> None]

\* a msg that rebuilds the wrapper and forgets the source
msg_clears_src(self, m) == [self EXCEPT !.msg = Some(m), !.src = None]

\* a msg that adds to the message already set
msg_appends(self, m) ==
    IF is_some(self.msg) THEN [self EXCEPT !.msg = Some(unwrap(@) \o m)]
    ELSE [self EXCEPT !.msg = Some(m)]

msg(self, m) == [self EXCEPT !.msg = Some(m)]

\* a src that keeps the source already set
src_keeps_first(self, s) ==
    IF is_some(self.src) THEN self ELSE [self EXCEPT !.src = Some(s)]

\* a src that rebuilds the wrapper and forgets the message
src_clears_msg(self, s) == [self EXCEPT !.src = Some(s), !.msg = None]

\* a src that takes over the discriminant of a wrapper it is given
src_adopts_cause(self, s) ==
    [self EXCEPT !.src = Some(s),
                 !.cause = IF s.type = "Cause" THEN s.cause ELSE @]

src(self, s) == [self EXCEPT !.src = Some(s)]

cause(self) == self.cause

message(self) ==
    IF is_some(self.msg) THEN Some(unwrap(self.msg)) ELSE None

\* the trait's default method, were source() not overridden
source_default(self) == None

\* impl Error for Cause<T>
source(self) ==
    IF is_some(self.src) THEN Some(unwrap(self.src)) ELSE None

\* impl Deref for Cause<T>
deref(self) == self.cause

---------------------------------------------------------------------------
(* Display *)

RECURSIVE Display(_)

\* a fmt that forgets the newline that ends the "Caused by" block
fmt_no_final_newline(self) ==
    LET message0 == IF is_some(self.msg)
                      THEN Debug(self.cause) \o ": " \o unwrap(self.msg)
                      ELSE Debug(self.cause)
    IN  IF is_some(self.src)
          THEN message0 \o "\n\nCaused by:\n    " \o Display(unwrap(self.src))
          ELSE message0

\* a fmt that indents the source by two spaces
fmt_two_spaces(self) ==
    LET message0 == IF is_some(self.msg)
                      THEN Debug(self.cause) \o ": " \o unwrap(self.msg)
                      ELSE Debug(self.cause)
    IN  IF is_some(self.src)
          THEN message0 \o "\n\nCaused by:\n  " \o Display(unwrap(self.src)) \o "\n"
          ELSE message0

\* impl Display for Cause<T>
fmt(self) ==
    LET message0 == IF is_some(self.msg)
                      THEN Debug(self.cause) \o ": " \o unwrap(self.msg)
                      ELSE Debug(self.cause)
    IN  IF is_some(self.src)
          THEN message0 \o "\n\nCaused by:\n    " \o Display(unwrap(self.src)) \o "\n"
          ELSE message0

\* `{}` of a boxed dyn Error: the wrapper's own fmt, or the io error's text
Display(e) == IF e.type = "Cause" THEN fmt(e) ELSE e.text

\* to_string()
to_string(e) == Display(e)

---------------------------------------------------------------------------
(* The macro cause! *)

Digits == "0123456789"

\* `{}` of a u32: its decimal digits
RECURSIVE FmtU32(_)
FmtU32(n) ==
    IF n < 10 THEN SubSeq(Digits, n + 1, n + 1)
    ELSE FmtU32(n \div 10) \o SubSeq(Digits, (n % 10) + 1, (n % 10) + 1)

\* a helper that reports its own position in src/lib.rs, not the caller's
cause1_own_position(type, site) ==
    IF debug_assertions
      THEN msg(new(type), "[" \o "src/lib.rs" \o ":" \o FmtU32(81) \o "]")
      ELSE new(type)

\* cause!($type) expanded at `site`
cause1(type, site) ==
    IF debug_assertions
      THEN msg(new(type), "[" \o site.file \o ":" \o FmtU32(site.line) \o "]")
      ELSE new(type)

\* a two-argument arm that tags the message in every build mode
cause2_always_tags(type, m, site) ==
    msg(new(type), m \o " [" \o site.file \o ":" \o FmtU32(site.line) \o "]")

\* cause!($type, $msg) expanded at `site`
cause2(type, m, site) ==
    IF debug_assertions
      THEN msg(new(type), m \o " [" \o site.file \o ":" \o FmtU32(site.line) \o "]")
      ELSE msg(new(type), m)

---------------------------------------------------------------------------
(* The state machine: a program building, nesting and dropping wrappers *)

RECURSIVE Depth(_)
Depth(e) ==
    IF e.type = "Cause" /\ is_some(e.src) THEN 1 + Depth(unwrap(e.src))
    ELSE 1

\* one entry of the history: the call and its arguments (None where it has none)
Call(op, d, m, s, site) == [op |-> op, d |-> d, m |-> m, s |-> s, site |-> site]

Init ==
    /\ debug_assertions \in BOOLEAN
    /\ this = None
    /\ calls = <<>>
    /\ inner = None

\* let cause = Cause::new(d);
New(d) ==
    /\ is_none(this)
    /\ this' = Some(new(d))
    /\ calls' = <<Call("new", Some(d), None, None, None)>>
    /\ UNCHANGED <<debug_assertions, inner>>

\* let cause = cause!(d);
Macro1(d, site) ==
    /\ is_none(this)
    /\ this' = Some(cause1(d, site))
    /\ calls' = <<Call("cause!1", Some(d), None, None, Some(site))>>
    /\ UNCHANGED <<debug_assertions, inner>>

\* let cause = cause!(d, m);
Macro2(d, m, site) ==
    /\ is_none(this)
    /\ this' = Some(cause2(d, m, site))
    /\ calls' = <<Call("cause!2", Some(d), Some(m), None, Some(site))>>
    /\ UNCHANGED <<debug_assertions, inner>>

\* let cause = cause.msg(m);
Msg(m) ==
    /\ is_some(this)
    /\ Len(calls) < MaxCalls
    /\ this' = Some(msg(unwrap(this), m))
    /\ calls' = Append(calls, Call("msg", None, Some(m), None, None))
    /\ UNCHANGED <<debug_assertions, inner>>

\* let cause = cause.src(io_err);   the source is a fresh foreign error
SrcIo(e) ==
    /\ is_some(this)
    /\ Len(calls) < MaxCalls
    /\ this' = Some(src(unwrap(this), e))
    /\ calls' = Append(calls, Call("src", None, None, Some(e), None))
    /\ UNCHANGED <<debug_assertions, inner>>

\* let cause = cause.src(inner);    the kept error is moved into the wrapper
SrcInner ==
    /\ is_some(this)
    /\ is_some(inner)
    /\ Len(calls) < MaxCalls
    /\ this' = Some(src(unwrap(this), unwrap(inner)))
    /\ calls' = Append(calls, Call("src", None, None, inner, None))
    /\ inner' = None
    /\ UNCHANGED debug_assertions

\* let inner = cause;   the finished wrapper is kept to become a source
Keep ==
    /\ is_some(this)
    /\ is_none(inner)
    /\ Depth(unwrap(this)) <= MaxDepth
    /\ inner' = this
    /\ this' = None
    /\ calls' = <<>>
    /\ UNCHANGED debug_assertions

\* the wrapper goes out of scope
Drop ==
    /\ is_some(this)
    /\ this' = None
    /\ calls' = <<>>
    /\ UNCHANGED <<debug_assertions, inner>>

Next ==
    \/ \E d \in ErrorType : New(d)
    \/ \E d \in ErrorType, site \in CallSites : Macro1(d, site)
    \/ \E d \in ErrorType, m \in Messages, site \in CallSites : Macro2(d, m, site)
    \/ \E m \in Messages : Msg(m)
    \/ \E e \in IoErrors : SrcIo(e)
    \/ SrcInner
    \/ Keep
    \/ Drop

Spec == Init /\ [][Next]_vars

\* The program that builds single wrappers, by the constructor or the macro,
\* and never nests them: every behaviour of SpecBuild is one of Spec.
NextBuild ==
    \/ \E d \in ErrorType : New(d)
    \/ \E d \in ErrorType, site \in CallSites : Macro1(d, site)
    \/ \E d \in ErrorType, m \in Messages, site \in CallSites : Macro2(d, m, site)
    \/ \E m \in Messages : Msg(m)
    \/ \E e \in IoErrors : SrcIo(e)
    \/ Drop

SpecBuild == Init /\ [][NextBuild]_vars

\* The program that builds wrappers by the constructor and nests them, in a
\* debug build (without the macro the build mode changes nothing): every
\* behaviour of SpecNest is one of Spec.
NextNest ==
    \/ \E d \in ErrorType : New(d)
    \/ \E m \in Messages : Msg(m)
    \/ \E e \in IoErrors : SrcIo(e)
    \/ SrcInner
    \/ Keep
    \/ Drop

InitNest == Init /\ debug_assertions = TRUE

SpecNest == InitNest /\ [][NextNest]_vars

---------------------------------------------------------------------------
(* What the history says: the arguments of the calls that built `this` *)

Built == is_some(this)
FromNew == Built /\ calls[1].op = "new"

MsgCalls == {i \in 1..Len(calls) : calls[i].op = "msg"}
SrcCalls == {i \in 1..Len(calls) : calls[i].op = "src"}
Last(S) == CHOOSE i \in S : \A j \in S : j <= i

\* the discriminant given to the constructor
GivenCause == unwrap(calls[1].d)
\* the text of the most recent msg call, if any
GivenMsg == IF MsgCalls = {} THEN None ELSE calls[Last(MsgCalls)].m
\* the error of the most recent src call, if any
GivenSrc == IF SrcCalls = {} THEN None ELSE calls[Last(SrcCalls)].s

CausedBy == "\n\nCaused by:\n    "

\* the text of section 4.1: discriminant, optional message, optional cause
Rendering(d, m, s) ==
    Debug(d)
    \o (IF is_some(m) THEN ": " \o unwrap(m) ELSE "")
    \o (IF is_some(s) THEN CausedBy \o Display(unwrap(s)) \o "\n" ELSE "")

---------------------------------------------------------------------------
(* Claims *)

\* C1: rendering a wrapper built from d is debug(d), then ": " and the
\* message iff a message was set, then "\n\nCaused by:\n    ", the source's
\* rendering and "\n" iff a source was set; nothing else.
C1_DisplayFormat ==
    FromNew =>
        to_string(unwrap(this)) = Rendering(GivenCause, GivenMsg, GivenSrc)

\* C1 witness: the documentation's three examples of the format are reached
\* one after the other; this is the one with a source and no message.
C1_Witness ==
    /\ FromNew
    /\ GivenMsg = None
    /\ GivenSrc = Some(new(NotFoundError))
    /\ GivenCause = InternalError
    /\ to_string(unwrap(this)) = "InternalError\n\nCaused by:\n    NotFoundError\n"

\* C2: new(d).msg(m).src(s) and new(d).src(s).msg(m) both render as
\* "debug(d): m\n\nCaused by:\n    render(s)\n": the order of attaching the
\* message and the source does not matter.
C2_OrderIndependent ==
    (FromNew /\ Len(calls) = 3 /\ {calls[2].op, calls[3].op} = {"msg", "src"}) =>
        to_string(unwrap(this)) =
            Debug(GivenCause) \o ": " \o unwrap(GivenMsg)
                \o CausedBy \o Display(unwrap(GivenSrc)) \o "\n"

\* C2 witness: the source was attached first and the message second.
C2_Witness ==
    /\ FromNew /\ Len(calls) = 3
    /\ calls[2].op = "src" /\ calls[3].op = "msg"
    /\ to_string(unwrap(this)) =
           "InternalError: oops!\n\nCaused by:\n    NotFoundError: oops!\n"

\* C4: after any sequence of msg and src calls on new(d), source() is
\* present iff src was called at least once.
C4_SourceIffSrcCalled ==
    FromNew => (is_some(source(unwrap(this))) <=> SrcCalls # {})

\* C4 witness: msg was called after src, and the source is still there.
C4_Witness ==
    /\ FromNew
    /\ SrcCalls # {} /\ MsgCalls # {}
    /\ Last(MsgCalls) > Last(SrcCalls)
    /\ is_some(source(unwrap(this)))

\* C9: the discriminant is never reassigned: after any msg and src calls on
\* new(d), dereferencing the wrapper and cause() yield d, and a match on the
\* dereferenced wrapper selects the branch a match on d selects.
C9_DiscriminantKept ==
    FromNew =>
        /\ deref(unwrap(this)) = GivenCause
        /\ cause(unwrap(this)) = GivenCause
        /\ http_status_code(deref(unwrap(this))) = http_status_code(GivenCause)

\* C9 witness: a wrapper of one variant has been given a wrapper of another
\* variant as its source, and a message.
C9_Witness ==
    /\ FromNew
    /\ MsgCalls # {}
    /\ is_some(GivenSrc)
    /\ unwrap(GivenSrc).type = "Cause"
    /\ unwrap(GivenSrc).cause # GivenCause
    /\ http_status_code(deref(unwrap(this))) = 404

\* C10: after any msg and src calls on new(d), message() is present iff msg
\* was called and is the text of the latest msg call, whatever src calls are
\* interleaved; and the source is the one of the latest src call, whatever
\* msg calls are interleaved.
C10_SettersFrame ==
    FromNew =>
        /\ message(unwrap(this)) = GivenMsg
        /\ source(unwrap(this)) = GivenSrc

\* C10 witness: msg, then src, then msg again.
C10_Witness ==
    /\ FromNew /\ Len(calls) = 4
    /\ calls[2].op = "msg" /\ calls[3].op = "src" /\ calls[4].op = "msg"
    /\ calls[2].m # calls[4].m
    /\ message(unwrap(this)) = calls[4].m
    /\ source(unwrap(this)) = calls[3].s


---------------------------------------------------------------------------
(* Lines of a text *)

\* the position of the first line break of t at or after i; 0 if none
RECURSIVE FirstBreak(_, _)
FirstBreak(t, i) ==
    IF i > Len(t) THEN 0
    ELSE IF SubSeq(t, i, i) = "\n" THEN i
    ELSE FirstBreak(t, i + 1)

\* the lines of t: the texts between its line breaks (a text that ends with
\* a line break has an empty last line)
RECURSIVE Lines(_)
Lines(t) ==
    LET b == FirstBreak(t, 1)
    IN  IF b = 0 THEN <<t>>
        ELSE <<SubSeq(t, 1, b - 1)>> \o Lines(SubSeq(t, b + 1, Len(t)))

Indent == "    "

\* `this` has a wrapper as its source
Nested ==
    /\ Built
    /\ is_some(source(unwrap(this)))
    /\ unwrap(source(unwrap(this))).type = "Cause"

\* the lines of the outer rendering, of the inner rendering, and the number
\* of the outer's "Caused by:" line
OuterLines == Lines(to_string(unwrap(this)))
InnerLines == Lines(to_string(unwrap(source(unwrap(this)))))
CausedByLine ==
    Len(Lines(Rendering(cause(unwrap(this)), message(unwrap(this)), None))) + 2

\* C3 as stated: the inner wrapper's full text, its own "Caused by" block
\* included, is indented four spaces under the outer's "Caused by:" line:
\* every line of it that is not empty follows that line with four spaces
\* put before it.
C3_AsStated ==
    Nested =>
        LET outer == OuterLines
            inner_lines == InnerLines
            at == CausedByLine
        IN  \A i \in 1..Len(inner_lines) :
                inner_lines[i] # "" =>
                    outer[at + i] = Indent \o inner_lines[i]

\* C3 as amended: the inner wrapper's full text follows the outer's
\* "Caused by:" line verbatim after four spaces: its first line is indented
\* four spaces, its other lines (its own "Caused by" block) are not indented
\* again, and one line break ends it; also with a wrapper nested in the
\* nested wrapper.
C3_NestedVerbatim ==
    Nested =>
        LET outer == OuterLines
            inner_lines == InnerLines
            at == CausedByLine
        IN  /\ Len(outer) = at + Len(inner_lines) + 1
            /\ outer[at - 1] = ""
            /\ outer[at] = "Caused by:"
            /\ outer[at + 1] = Indent \o inner_lines[1]
            /\ \A i \in 2..Len(inner_lines) : outer[at + i] = inner_lines[i]
            /\ outer[Len(outer)] = ""

\* C3 witness: a wrapper whose source is a wrapper whose source is a wrapper.
C3_Witness ==
    /\ Nested
    /\ is_some(source(unwrap(source(unwrap(this)))))
    /\ unwrap(source(unwrap(source(unwrap(this))))).type = "Cause"
    /\ to_string(unwrap(this)) =
          "InternalError\n\nCaused by:\n    NotFoundError: oops!\n\nCaused by:\n    InvalidArgumentsError\n\n"

---------------------------------------------------------------------------
(* Claims about the macro and about replacing *)

\* the decimal text of the call sites' line numbers, written out
LineText(n) == CASE n = 12 -> "12" [] n = 105 -> "105"
Location(site) == "[" \o site.file \o ":" \o LineText(site.line) \o "]"

\* C5: cause!(d) yields, in a debug build, a wrapper of d whose message is
\* "[<file>:<line>]" of the invocation, and in a release build a wrapper of
\* d without a message; no source in either.
C5_MacroOneArgument ==
    (Built /\ Len(calls) = 1 /\ calls[1].op = "cause!1") =>
        LET w == unwrap(this)
            site == unwrap(calls[1].site)
        IN  /\ cause(w) = GivenCause
            /\ is_none(source(w))
            /\ debug_assertions =>
                   /\ message(w) = Some(Location(site))
                   /\ to_string(w) = Debug(GivenCause) \o ": " \o Location(site)
            /\ ~debug_assertions =>
                   /\ is_none(message(w))
                   /\ to_string(w) = Debug(GivenCause)

\* C5 witness: the debug build of the test's invocation at line 12.
C5_Witness ==
    /\ Built /\ Len(calls) = 1 /\ calls[1].op = "cause!1"
    /\ debug_assertions
    /\ to_string(unwrap(this)) = "InternalError: [tests/macro_test.rs:12]"

MessageSetBefore ==
    /\ MsgCalls # {}
    /\ \/ \E i \in MsgCalls : i < Last(MsgCalls)
       \/ calls[1].op = "cause!2"
       \/ calls[1].op = "cause!1" /\ debug_assertions

\* C7: msg replaces the message: after msg(m1) and then msg(m2) the message
\* is m2 and the wrapper renders as new(d).msg(m2) does; msg(m) on what the
\* debug build's macro returned drops the call-site text.
C7_MsgReplaces ==
    (Built /\ MessageSetBefore) =>
        LET w == unwrap(this)
            m2 == unwrap(calls[Last(MsgCalls)].m)
        IN  /\ message(w) = Some(m2)
            /\ SrcCalls = {} =>
                   /\ to_string(w) = to_string(msg(new(GivenCause), m2))
                   /\ to_string(w) = Debug(GivenCause) \o ": " \o m2

\* C7 witness: msg("oops!") on the result of the debug build's cause!(d).
C7_Witness ==
    /\ Built /\ Len(calls) = 2
    /\ debug_assertions
    /\ calls[1].op = "cause!1" /\ calls[2].op = "msg"
    /\ to_string(unwrap(this)) = "InternalError: oops!"

\* the errors source() leads to, nearest first; an io error made from a
\* text has no source
RECURSIVE Chain(_)
Chain(e) ==
    IF e.type = "Cause" /\ is_some(source(e))
      THEN <<unwrap(source(e))>> \o Chain(unwrap(source(e)))
      ELSE <<>>

Range(f) == {f[i] : i \in DOMAIN f}

\* C8: src replaces the source: after src(s1) and then src(s2), source()
\* gives s2, the wrapper renders as new(d).src(s2) does, and s1 is nowhere
\* in the cause chain (unless s2 brings an equal error along).
C8_SrcReplaces ==
    (FromNew /\ \E i \in SrcCalls : i < Last(SrcCalls)) =>
        LET w == unwrap(this)
            s2 == unwrap(calls[Last(SrcCalls)].s)
        IN  /\ source(w) = Some(s2)
            /\ to_string(w) = Rendering(GivenCause, GivenMsg, Some(s2))
            /\ MsgCalls = {} => to_string(w) = to_string(src(new(GivenCause), s2))
            /\ \A i \in SrcCalls :
                   LET s1 == unwrap(calls[i].s)
                   IN  s1 \notin (Range(Chain(s2)) \cup {s2}) =>
                           s1 \notin Range(Chain(w))

\* C8 witness: an io error was attached first, a wrapper after it.
C8_Witness ==
    /\ FromNew /\ Len(calls) = 3
    /\ calls[2].op = "src" /\ calls[3].op = "src"
    /\ unwrap(calls[2].s).type = "IoError"
    /\ unwrap(calls[3].s).type = "Cause"
    /\ to_string(unwrap(this)) = "InternalError\n\nCaused by:\n    NotFoundError\n"

====
